---- MODULE Spec2Model ----
(***************************************************************************)
(* FairFare backend (src/backend/main.py): artifact loading at import      *)
(* time and the /predict handler, stage by stage.                          *)
(*                                                                         *)
(* Number representation (TLC integers are 32 bit, the code uses floats):  *)
(*   distances   integers in units of 0.1 m (KmUnit units per km)          *)
(*   money       [c, f]: c whole cents (floor), f/FracDen of a cent        *)
(*   predictions integers in half cents                                    *)
(*   raw feature [n, mul, pow]: the exact value (n * mul / 10^6) ^ pow     *)
(*   cell        [col, raw, mean, scale]: the value (raw - mean) / scale   *)
(*               sitting under column col                                  *)
(* All arithmetic is exact; round() is round-half-to-even on exact values. *)
(***************************************************************************)
EXTENDS Integers, Sequences, FiniteSets, TLC

\* ---------------------------------------------------------------- bounds
MaxReq == 2
MaxCols == 2

\* ------------------------------------------------------- representation
KmUnit == 10 * 1000
FracDen == 6 * 100000
Million == 1000 * 1000

\* a global before its load ran, a failed _safe_load, a load that raised
UNSET == [kind |-> "unset"]
NONE == [kind |-> "None"]
RAISED == [kind |-> "raised"]

Slots == 1..MaxReq

Max(a, b) == IF a >= b THEN a ELSE b

Range(f) == {f[i] : i \in DOMAIN f}

RECURSIVE SumSeq(_)
SumSeq(s) == IF s = <<>> THEN 0 ELSE Head(s) + SumSeq(Tail(s))

\* round(n / d) to an integer, ties to even (d > 0)
RoundDiv(n, d) ==
    LET q == n \div d
        r == n % d
    IN  IF 2 * r > d THEN q + 1
        ELSE IF 2 * r = d THEN q + (q % 2)
        ELSE q

\* ---------------------------------------------------------------- money
Money(c, f) == [c |-> c, f |-> f]

\* the mean of a list of predictions held in half cents
MeanMoney(ps) ==
    LET S == SumSeq(ps)
        d == 2 * Len(ps)
    IN  Money(S \div d, (S % d) * (FracDen \div d))

HalfCents(p) == Money(p \div 2, (p % 2) * (FracDen \div 2))

MoneySub(a, b) ==
    IF a.f >= b.f THEN Money(a.c - b.c, a.f - b.f)
    ELSE Money(a.c - b.c - 1, a.f - b.f + FracDen)

\* m * k for an integer k >= 0
MoneyTimes(m, k) ==
    Money(m.c * k + ((m.f * k) \div FracDen), (m.f * k) % FracDen)

\* m * pct / 100 (exact when m.f is a multiple of 100)
MoneyPct(m, pct) ==
    LET cp == m.c * pct
        fr == (cp % 100) * (FracDen \div 100) + (m.f \div 100) * pct
    IN  Money((cp \div 100) + (fr \div FracDen), fr % FracDen)

MoneyLess(a, b) == a.c < b.c \/ (a.c = b.c /\ a.f < b.f)

\* round(x, 2) of a money value: whole cents
Round2(m) ==
    IF 2 * m.f > FracDen THEN m.c + 1
    ELSE IF 2 * m.f = FracDen THEN m.c + (m.c % 2)
    ELSE m.c

\* round(distance_km, 3): thousandths of a km
Round3(d) == RoundDiv(d, KmUnit \div 1000)

\* ------------------------------------------------------------ haversine
R == 6371
QuarterPi == 7854

\* 2 * sin(deg)^2 for deg a multiple of 45
Sin2x2(deg) ==
    LET m == deg % 180
    IN  IF m = 0 THEN 0 ELSE IF m = 90 THEN 2 ELSE 1

\* cos(deg) for deg a multiple of 90
CosDeg(deg) ==
    LET m == deg % 360
    IN  IF m = 0 THEN 1 ELSE IF m = 180 THEN 0 - 1 ELSE 0

\* coordinates in degrees, multiples of 90; a is held doubled (a2 = 2a),
\* atan2(sqrt(a), sqrt(1 - a)) is a2 quarter turns of pi for a2 in 0..2
haversine(lat1, lon1, lat2, lon2) ==
    LET dphi == lat2 - lat1
        dlambda == lon2 - lon1
        a2 == Sin2x2(dphi \div 2)
              + CosDeg(lat1) * CosDeg(lat2) * Sin2x2(dlambda \div 2)
    IN  2 * R * (a2 * QuarterPi)

\* ------------------------------------------------------- feature values
Num(n) == [n |-> n, mul |-> Million, pow |-> 1]
Miles(d) == [n |-> d, mul |-> 621371, pow |-> 1]
Squared(v) == [n |-> v.n, mul |-> v.mul, pow |-> 2 * v.pow]

Cell(col, raw, mean, scale) ==
    [col |-> col, raw |-> raw, mean |-> mean, scale |-> scale]

\* faulty variant: only a negative distance is recomputed
ResolveDistanceStrict(q) ==
    IF q.distance_km < 0
    THEN haversine(q.pickup_lat, q.pickup_lng, q.drop_lat, q.drop_lng)
    ELSE q.distance_km

\* line 174-179
ResolveDistance(q) ==
    IF q.distance_km <= 0
    THEN haversine(q.pickup_lat, q.pickup_lng, q.drop_lat, q.drop_lng)
    ELSE q.distance_km

\* faulty variant: the fallback reads the first column's mean, not the column's own
NumericValueFirstMean(col, i, q, dkm, means) ==
    IF col = "trip_distance" THEN Miles(dkm)
    ELSE IF col = "distance_km" THEN Num(dkm)
    ELSE IF col \in {"distance_squared", "trip_distance_squared"}
         THEN Squared(Miles(dkm))
    ELSE IF col = "hour" THEN Num(q.hour)
    ELSE IF col = "day_of_week" THEN Num(q.day_of_week)
    ELSE IF col \in {"traffic_multiplier", "traffic_level", "traffic_congestion"}
         THEN Num(q.traffic_level)
    ELSE Num(means[1])

\* line 193-209: the value of one declared numeric column, i its index
NumericValue(col, i, q, dkm, means) ==
    IF col = "trip_distance" THEN Miles(dkm)
    ELSE IF col = "distance_km" THEN Num(dkm)
    ELSE IF col \in {"distance_squared", "trip_distance_squared"}
         THEN Squared(Miles(dkm))
    ELSE IF col = "hour" THEN Num(q.hour)
    ELSE IF col = "day_of_week" THEN Num(q.day_of_week)
    ELSE IF col \in {"traffic_multiplier", "traffic_level", "traffic_congestion"}
         THEN Num(q.traffic_level)
    ELSE Num(means[i])

\* a dict assignment row[k] = v
DictSet(row, k, v) ==
    [x \in (DOMAIN row) \cup {k} |-> IF x = k THEN v ELSE row[x]]

EmptyDict == [x \in {} |-> 0]

\* line 190-209: the loop over enumerate(numeric_features), from index i on
RECURSIVE NumericRowFrom(_, _, _, _, _)
NumericRowFrom(i, row, q, dkm, sc) ==
    IF i > Len(sc.feature_names_in_) THEN row
    ELSE NumericRowFrom(
            i + 1,
            DictSet(row, sc.feature_names_in_[i],
                    NumericValue(sc.feature_names_in_[i], i, q, dkm, sc.mean_)),
            q, dkm, sc)

NumericRow(q, dkm, sc) == NumericRowFrom(1, EmptyDict, q, dkm, sc)

\* line 211-213: scaler.transform(num_df_raw[numeric_features])
ScalerTransform(row, sc) ==
    [i \in 1..Len(sc.feature_names_in_) |->
        Cell(sc.feature_names_in_[i], row[sc.feature_names_in_[i]],
             sc.mean_[i], sc.scale_[i])]

\* line 222-227
CatValue(col, q) ==
    IF col = "weather_condition" THEN q.weather
    ELSE IF col = "car_type" THEN q.car_type
    ELSE "Unknown"

\* line 220-227
RECURSIVE CatRowFrom(_, _, _, _)
CatRowFrom(j, row, q, en) ==
    IF j > Len(en.feature_names_in_) THEN row
    ELSE CatRowFrom(
            j + 1,
            DictSet(row, en.feature_names_in_[j],
                    CatValue(en.feature_names_in_[j], q)),
            q, en)

CatRow(q, en) == CatRowFrom(1, EmptyDict, q, en)

\* line 231: a strict encoder raises on a value outside its vocabulary
EncoderRaises(row, en) ==
    /\ en.handle_unknown = "error"
    /\ \E j \in 1..Len(en.feature_names_in_) :
          row[en.feature_names_in_[j]] \notin Range(en.categories_[j])

\* the one-hot block of column j
OneHot(row, en, j) ==
    [k \in 1..Len(en.categories_[j]) |->
        IF row[en.feature_names_in_[j]] = en.categories_[j][k] THEN 1 ELSE 0]

RECURSIVE EncodeFrom(_, _, _)
EncodeFrom(j, row, en) ==
    IF j > Len(en.feature_names_in_) THEN <<>>
    ELSE OneHot(row, en, j) \o EncodeFrom(j + 1, row, en)

\* line 231: encoder.transform, column blocks in the encoder's column order
EncoderTransform(row, en) == EncodeFrom(1, row, en)

RECURSIVE NamesFrom(_, _)
NamesFrom(j, en) ==
    IF j > Len(en.feature_names_in_) THEN <<>>
    ELSE [k \in 1..Len(en.categories_[j]) |->
            en.feature_names_in_[j] \o "_" \o en.categories_[j][k]]
         \o NamesFrom(j + 1, en)

\* line 232: encoder.get_feature_names_out(cat_cols)
FeatureNamesOut(en) == NamesFrom(1, en)

\* line 233-236
CatFrame(encoded, names) ==
    [i \in 1..Len(names) |-> Cell(names[i], Num(encoded[i]), 0, 1)]

ColumnsOf(df) == [i \in 1..Len(df) |-> df[i].col]

\* df[cols]: the columns of df picked by name, in the order of cols
SelectCols(df, cols) ==
    [i \in 1..Len(cols) |->
        df[CHOOSE j \in 1..Len(df) : df[j].col = cols[i]]]

\* faulty variant: the column list is built categorical-first
CombineFramesCatFirst(numdf, catdf, numeric_features, encoded_feature_names) ==
    LET feature_columns == encoded_feature_names \o numeric_features
    IN  SelectCols(numdf \o catdf, feature_columns)

\* line 241-242
CombineFrames(numdf, catdf, numeric_features, encoded_feature_names) ==
    LET feature_columns == numeric_features \o encoded_feature_names
    IN  SelectCols(numdf \o catdf, feature_columns)

\* ------------------------------------------------------------- models
\* A trained regressor is opaque: a fixed function of the vector's columns
\* and values, which raises when the vector's width is not the one it was
\* fitted on.
RECURSIVE DigestFrom(_, _)
DigestFrom(i, df) ==
    IF i > Len(df) THEN 0
    ELSE i * ((df[i].raw.n + df[i].raw.pow + df[i].mean + df[i].scale) % 3)
         + DigestFrom(i + 1, df)

ModelRaises(m, df) == Len(df) # m.n_features_in_

\* the prediction, in half cents
ModelPredict(m, df) == m.intercept + m.coef * (DigestFrom(1, df) % 4)

\* ------------------------------------------------------ pricing rules
base == 3
per_km == 2

\* faulty variant: min for max in the distance floor
compute_fair_taxi_price_min(distance_km, traffic_level) ==
    LET lo == IF distance_km <= KmUnit \div 10 THEN distance_km
              ELSE KmUnit \div 10
        A == base * KmUnit + per_km * lo
        F == 2000 + 3 * traffic_level
        D == 20 * KmUnit
        rF == (A % D) * F
    IN  Money((A \div D) * F + (rF \div D), (rF % D) * (FracDen \div D))

\* line 136-154, in money; distance in KmUnit, traffic_level an integer
compute_fair_taxi_price(distance_km, traffic_level) ==
    LET A == base * KmUnit + per_km * Max(distance_km, KmUnit \div 10)
        F == 2000 + 3 * traffic_level
        D == 20 * KmUnit
        rF == (A % D) * F
    IN  Money((A \div D) * F + (rF \div D), (rF % D) * (FracDen \div D))

\* faulty variant: the thresholds are inclusive
SurgeMultiplierGe(q) ==
    IF q.traffic_level >= 60 \/ q.weather \in {"Rainy", "Snowy", "Foggy"}
    THEN 130
    ELSE IF q.traffic_level >= 35 THEN 115
    ELSE 100

\* line 260-266, in percent
SurgeMultiplier(q) ==
    IF q.traffic_level > 60 \/ q.weather \in {"Rainy", "Snowy", "Foggy"}
    THEN 130
    ELSE IF q.traffic_level > 35 THEN 115
    ELSE 100

\* line 252-269: the unrounded quote
BuildQuote(q, dkm, app) ==
    LET fair_price == compute_fair_taxi_price(dkm, q.traffic_level)
        surge_multiplier == SurgeMultiplier(q)
        final_fare == MoneyPct(app, surge_multiplier)
    IN  [fair_price |-> fair_price,
         model_base_price |-> app,
         hidden_fee_vs_fair |-> MoneySub(app, fair_price),
         surge_multiplier |-> surge_multiplier,
         final_fare |-> final_fare,
         surge_fee |-> MoneySub(final_fare, app)]

\* faulty variant: the final fare reported is the base price
BuildResponseBaseAsFinal(q, dkm, qt, comp) ==
    [fair_taxi_price |-> Round2(qt.fair_price),
     model_base_price |-> Round2(qt.model_base_price),
     hidden_fee_vs_fair |-> Round2(qt.hidden_fee_vs_fair),
     final_ai_fare |-> Round2(qt.model_base_price),
     surge_multiplier |-> qt.surge_multiplier,
     surge_fee |-> Round2(qt.surge_fee),
     model_used |-> "ensemble",
     model_component_prices |->
        [n \in DOMAIN comp |-> Round2(HalfCents(comp[n]))],
     inputs |-> [q EXCEPT !.distance_km = Round3(dkm)]]

\* line 274-302: prices in whole cents, distance in thousandths of a km
BuildResponse(q, dkm, qt, comp) ==
    [fair_taxi_price |-> Round2(qt.fair_price),
     model_base_price |-> Round2(qt.model_base_price),
     hidden_fee_vs_fair |-> Round2(qt.hidden_fee_vs_fair),
     final_ai_fare |-> Round2(qt.final_fare),
     surge_multiplier |-> qt.surge_multiplier,
     surge_fee |-> Round2(qt.surge_fee),
     model_used |-> "ensemble",
     model_component_prices |->
        [n \in DOMAIN comp |-> Round2(HalfCents(comp[n]))],
     inputs |-> [q EXCEPT !.distance_km = Round3(dkm)]]

\* ------------------------------------------------------------- state
VARIABLES
    proc,               \* where the module-level code of main.py stands
    linear_model, rf_model, hist_gbm_model, scaler, encoder,
    pc,                 \* per request slot: the stage of predict()
    req, distance_km, numeric_row, num_df, cat_df, final_df,
    calls,              \* the predict calls made for the request, in order
    preds, component_prices, app_base_price, quote,
    response,           \* <<>> or <<the JSON body returned>>
    error               \* the exception the request ended with, or ""

artifacts == <<linear_model, rf_model, hist_gbm_model, scaler, encoder>>

locals == <<req, distance_km, numeric_row, num_df, cat_df, final_df, calls,
            preds, component_prices, app_base_price, quote, response, error>>

vars == <<proc, artifacts, pc, locals>>

NoReq ==
    [pickup_lat |-> 0, pickup_lng |-> 0, drop_lat |-> 0, drop_lng |-> 0,
     distance_km |-> 0, traffic_level |-> 0, weather |-> "", car_type |-> "",
     hour |-> 0, day_of_week |-> 0]

NoQuote == BuildQuote(NoReq, 0, Money(0, 0))

ERR_TRANSFORM == "ValueError: Found unknown categories"
ERR_PREDICT == "ValueError: X has a different number of features"
ERR_NO_MODELS == "RuntimeError: No ML models are loaded - cannot predict app price"

ModelNames == <<"linear_regression", "random_forest", "hist_gbm">>

ModelOf(name) ==
    IF name = "linear_regression" THEN linear_model
    ELSE IF name = "random_forest" THEN rf_model
    ELSE hist_gbm_model

IsLoaded(m) == m.kind \notin {"unset", "None", "raised"}

LoadedNames == {n \in Range(ModelNames) : IsLoaded(ModelOf(n))}

Init ==
    /\ proc = "load_linear"
    /\ linear_model = UNSET /\ rf_model = UNSET /\ hist_gbm_model = UNSET
    /\ scaler = UNSET /\ encoder = UNSET
    /\ pc = [s \in Slots |-> "idle"]
    /\ req = [s \in Slots |-> NoReq]
    /\ distance_km = [s \in Slots |-> 0]
    /\ numeric_row = [s \in Slots |-> EmptyDict]
    /\ num_df = [s \in Slots |-> <<>>]
    /\ cat_df = [s \in Slots |-> <<>>]
    /\ final_df = [s \in Slots |-> <<>>]
    /\ calls = [s \in Slots |-> <<>>]
    /\ preds = [s \in Slots |-> <<>>]
    /\ component_prices = [s \in Slots |-> EmptyDict]
    /\ app_base_price = [s \in Slots |-> Money(0, 0)]
    /\ quote = [s \in Slots |-> NoQuote]
    /\ response = [s \in Slots |-> <<>>]
    /\ error = [s \in Slots |-> ""]

\* ------------------------------------------------------------ startup
\* line 25-32: _safe_load returns the artifact, or None when joblib raises
SafeLoadOutcomes(MA) == MA \cup {NONE}

\* line 42-43: joblib.load returns the artifact or raises
LoadOutcomes(AS) == AS \cup {RAISED}

\* line 38
LoadLinear(MA) ==
    /\ proc = "load_linear"
    /\ \E r \in SafeLoadOutcomes(MA) : linear_model' = r
    /\ proc' = "load_rf"
    /\ UNCHANGED <<rf_model, hist_gbm_model, scaler, encoder, pc, locals>>

\* line 39
LoadRf(MA) ==
    /\ proc = "load_rf"
    /\ \E r \in SafeLoadOutcomes(MA) : rf_model' = r
    /\ proc' = "load_hist"
    /\ UNCHANGED <<linear_model, hist_gbm_model, scaler, encoder, pc, locals>>

\* line 40
LoadHist(MA) ==
    /\ proc = "load_hist"
    /\ \E r \in SafeLoadOutcomes(MA) : hist_gbm_model' = r
    /\ proc' = "load_scaler"
    /\ UNCHANGED <<linear_model, rf_model, scaler, encoder, pc, locals>>

\* faulty variant: the scaler is loaded through _safe_load like the models
LoadScalerSafe(SC) ==
    /\ proc = "load_scaler"
    /\ \E r \in SafeLoadOutcomes(SC) : scaler' = r
    /\ proc' = "load_encoder"
    /\ UNCHANGED <<linear_model, rf_model, hist_gbm_model, encoder, pc, locals>>

\* line 42: an exception here ends the import, and the process with it
LoadScaler(SC) ==
    /\ proc = "load_scaler"
    /\ \E r \in LoadOutcomes(SC) :
          IF r = RAISED
          THEN proc' = "crashed" /\ UNCHANGED scaler
          ELSE proc' = "load_encoder" /\ scaler' = r
    /\ UNCHANGED <<linear_model, rf_model, hist_gbm_model, encoder, pc, locals>>

\* line 43; the app object (line 48) and the server exist only after it
LoadEncoder(EN) ==
    /\ proc = "load_encoder"
    /\ \E r \in LoadOutcomes(EN) :
          IF r = RAISED
          THEN proc' = "crashed" /\ UNCHANGED encoder
          ELSE proc' = "serving" /\ encoder' = r
    /\ UNCHANGED <<linear_model, rf_model, hist_gbm_model, scaler, pc, locals>>

\* ------------------------------------------------------------ predict
Set(f, s, v) == [f EXCEPT ![s] = v]

\* the request ends with an exception: no body is returned
Fail(s, e) ==
    /\ pc' = Set(pc, s, "failed")
    /\ error' = Set(error, s, e)

\* line 161: the handler is entered with a validated RideRequest
Receive(s, Q) ==
    /\ proc = "serving"
    /\ pc[s] = "idle"
    /\ \E q \in Q : req' = Set(req, s, q)
    /\ pc' = Set(pc, s, "distance")
    /\ UNCHANGED <<proc, artifacts, distance_km, numeric_row, num_df, cat_df,
                   final_df, calls, preds, component_prices, app_base_price,
                   quote, response, error>>

\* line 174-182
Distance(s) ==
    /\ pc[s] = "distance"
    /\ distance_km' = Set(distance_km, s, ResolveDistance(req[s]))
    /\ pc' = Set(pc, s, "numeric")
    /\ UNCHANGED <<proc, artifacts, req, numeric_row, num_df, cat_df, final_df,
                   calls, preds, component_prices, app_base_price, quote,
                   response, error>>

\* faulty variant: the frames are module-level names, one copy for all requests
AssembleNumericShared(s) ==
    /\ pc[s] = "numeric"
    /\ LET row == NumericRow(req[s], distance_km[s], scaler)
       IN  /\ numeric_row' = [x \in Slots |-> row]
           /\ num_df' = [x \in Slots |-> ScalerTransform(row, scaler)]
    /\ pc' = Set(pc, s, "categorical")
    /\ UNCHANGED <<proc, artifacts, req, distance_km, cat_df, final_df, calls,
                   preds, component_prices, app_base_price, quote, response,
                   error>>

\* line 187-213
AssembleNumeric(s) ==
    /\ pc[s] = "numeric"
    /\ LET row == NumericRow(req[s], distance_km[s], scaler)
       IN  /\ numeric_row' = Set(numeric_row, s, row)
           /\ num_df' = Set(num_df, s, ScalerTransform(row, scaler))
    /\ pc' = Set(pc, s, "categorical")
    /\ UNCHANGED <<proc, artifacts, req, distance_km, cat_df, final_df, calls,
                   preds, component_prices, app_base_price, quote, response,
                   error>>

\* line 218-236
AssembleCategorical(s) ==
    /\ pc[s] = "categorical"
    /\ LET cat_row == CatRow(req[s], encoder)
       IN  IF EncoderRaises(cat_row, encoder)
           THEN Fail(s, ERR_TRANSFORM) /\ UNCHANGED cat_df
           ELSE /\ cat_df' = Set(cat_df, s,
                        CatFrame(EncoderTransform(cat_row, encoder),
                                 FeatureNamesOut(encoder)))
                /\ pc' = Set(pc, s, "combine")
                /\ UNCHANGED error
    /\ UNCHANGED <<proc, artifacts, req, distance_km, numeric_row, num_df,
                   final_df, calls, preds, component_prices, app_base_price,
                   quote, response>>

\* line 241-247: final_df, and the call of predict_app_price_ensemble
Combine(s) ==
    /\ pc[s] = "combine"
    /\ final_df' = Set(final_df, s,
            CombineFrames(num_df[s], cat_df[s], scaler.feature_names_in_,
                          FeatureNamesOut(encoder)))
    /\ pc' = Set(pc, s, "linear")
    /\ UNCHANGED <<proc, artifacts, req, distance_km, numeric_row, num_df,
                   cat_df, calls, preds, component_prices, app_base_price,
                   quote, response, error>>

\* faulty variant: a model whose predict raises is skipped (try/except around the
\* call) and the mean is taken over the others
PredictWithSkip(s, name, m, next) ==
    /\ IF m.kind = "None"
       THEN UNCHANGED <<calls, preds, component_prices>>
       ELSE /\ calls' = Set(calls, s,
                    Append(calls[s], [model |-> name, input |-> final_df[s]]))
            /\ IF ModelRaises(m, final_df[s])
               THEN UNCHANGED <<preds, component_prices>>
               ELSE LET p == ModelPredict(m, final_df[s])
                    IN  /\ preds' = Set(preds, s, Append(preds[s], p))
                        /\ component_prices' = Set(component_prices, s,
                                DictSet(component_prices[s], name, p))
    /\ pc' = Set(pc, s, next)
    /\ UNCHANGED <<proc, artifacts, req, distance_km, numeric_row, num_df,
                   cat_df, final_df, app_base_price, quote, response, error>>

\* line 110-113, 115-118, 120-123: one model's turn
PredictWith(s, name, m, next) ==
    /\ IF m.kind = "None"
       THEN /\ pc' = Set(pc, s, next)
            /\ UNCHANGED <<calls, preds, component_prices, error>>
       ELSE /\ calls' = Set(calls, s,
                    Append(calls[s], [model |-> name, input |-> final_df[s]]))
            /\ IF ModelRaises(m, final_df[s])
               THEN Fail(s, ERR_PREDICT) /\ UNCHANGED <<preds, component_prices>>
               ELSE LET p == ModelPredict(m, final_df[s])
                    IN  /\ preds' = Set(preds, s, Append(preds[s], p))
                        /\ component_prices' = Set(component_prices, s,
                                DictSet(component_prices[s], name, p))
                        /\ pc' = Set(pc, s, next)
                        /\ UNCHANGED error
    /\ UNCHANGED <<proc, artifacts, req, distance_km, numeric_row, num_df,
                   cat_df, final_df, app_base_price, quote, response>>

\* line 110-113
PredictLinear(s) ==
    pc[s] = "linear" /\ PredictWith(s, "linear_regression", linear_model, "rf")

\* line 115-118
PredictRf(s) ==
    pc[s] = "rf" /\ PredictWith(s, "random_forest", rf_model, "hist")

\* line 120-123
PredictHist(s) ==
    pc[s] = "hist" /\ PredictWith(s, "hist_gbm", hist_gbm_model, "mean")

\* faulty variant: the empty-list guard of line 125 is missing, the mean of no
\* predictions is taken as a zero price
EnsembleMeanPlaceholder(s) ==
    /\ pc[s] = "mean"
    /\ app_base_price' = Set(app_base_price, s,
            IF preds[s] = <<>> THEN Money(0, 0) ELSE MeanMoney(preds[s]))
    /\ pc' = Set(pc, s, "price")
    /\ UNCHANGED <<proc, artifacts, req, distance_km, numeric_row, num_df,
                   cat_df, final_df, calls, preds, component_prices, quote,
                   response, error>>

\* line 125-130
EnsembleMean(s) ==
    /\ pc[s] = "mean"
    /\ IF preds[s] = <<>>
       THEN Fail(s, ERR_NO_MODELS) /\ UNCHANGED app_base_price
       ELSE /\ app_base_price' = Set(app_base_price, s, MeanMoney(preds[s]))
            /\ pc' = Set(pc, s, "price")
            /\ UNCHANGED error
    /\ UNCHANGED <<proc, artifacts, req, distance_km, numeric_row, num_df,
                   cat_df, final_df, calls, preds, component_prices, quote,
                   response>>

\* line 252-302
Price(s) ==
    /\ pc[s] = "price"
    /\ LET qt == BuildQuote(req[s], distance_km[s], app_base_price[s])
       IN  /\ quote' = Set(quote, s, qt)
           /\ response' = Set(response, s,
                <<BuildResponse(req[s], distance_km[s], qt, component_prices[s])>>)
    /\ pc' = Set(pc, s, "done")
    /\ UNCHANGED <<proc, artifacts, req, distance_km, numeric_row, num_df,
                   cat_df, final_df, calls, preds, component_prices,
                   app_base_price, error>>

\* the handler has returned or raised: its frame is gone, the worker is free
Finish(s) ==
    /\ pc[s] \in {"done", "failed"}
    /\ pc' = Set(pc, s, "idle")
    /\ req' = Set(req, s, NoReq)
    /\ distance_km' = Set(distance_km, s, 0)
    /\ numeric_row' = Set(numeric_row, s, EmptyDict)
    /\ num_df' = Set(num_df, s, <<>>)
    /\ cat_df' = Set(cat_df, s, <<>>)
    /\ final_df' = Set(final_df, s, <<>>)
    /\ calls' = Set(calls, s, <<>>)
    /\ preds' = Set(preds, s, <<>>)
    /\ component_prices' = Set(component_prices, s, EmptyDict)
    /\ app_base_price' = Set(app_base_price, s, Money(0, 0))
    /\ quote' = Set(quote, s, NoQuote)
    /\ response' = Set(response, s, <<>>)
    /\ error' = Set(error, s, "")
    /\ UNCHANGED <<proc, artifacts>>

\* one step of the request in slot s
Handle(s, Q) ==
    \/ Receive(s, Q)
    \/ Distance(s)
    \/ AssembleNumeric(s)
    \/ AssembleCategorical(s)
    \/ Combine(s)
    \/ PredictLinear(s)
    \/ PredictRf(s)
    \/ PredictHist(s)
    \/ EnsembleMean(s)
    \/ Price(s)
    \/ Finish(s)

Startup(MA, SC, EN) ==
    \/ LoadLinear(MA)
    \/ LoadRf(MA)
    \/ LoadHist(MA)
    \/ LoadScaler(SC)
    \/ LoadEncoder(EN)

\* the system with worker slots S, requests Q and artifact files MA, SC, EN
System(S, Q, MA, SC, EN) ==
    \/ Startup(MA, SC, EN)
    \/ \E s \in S : Handle(s, Q)

\* ------------------------------------------------- artifacts on disk
Mdl(n, i, c) ==
    [kind |-> "model", n_features_in_ |-> n, intercept |-> i, coef |-> c]

\* a fitted StandardScaler: per-column mean_ and scale_ differ by index
Sclr(names) ==
    [kind |-> "scaler", feature_names_in_ |-> names,
     mean_ |-> [i \in 1..Len(names) |-> 10 * i + 3],
     scale_ |-> [i \in 1..Len(names) |-> i + 1]]

\* a fitted OneHotEncoder
Encd(names, cats, unknown) ==
    [kind |-> "encoder", feature_names_in_ |-> names, categories_ |-> cats,
     handle_unknown |-> unknown]

NumericColumnNames ==
    {"trip_distance", "distance_km", "distance_squared",
     "trip_distance_squared", "hour", "day_of_week", "traffic_multiplier",
     "traffic_level", "traffic_congestion", "passenger_count", "tolls_amount"}

\* every list of 1..MaxCols distinct numeric column names
ColumnLists ==
    {l \in UNION {[1..n -> NumericColumnNames] : n \in 1..MaxCols} :
        \A i, j \in DOMAIN l : i # j => l[i] # l[j]}

WeatherCats == <<"Cloudy", "Rainy", "Sunny">>
CarCats == <<"Economy", "SUV">>

EncStrict ==
    Encd(<<"weather_condition", "car_type">>, <<WeatherCats, CarCats>>, "error")
EncIgnore ==
    Encd(<<"car_type", "payment_type", "weather_condition">>,
         <<CarCats, <<"Cash", "Unknown">>, WeatherCats>>, "ignore")
EncWeather == Encd(<<"weather_condition">>, <<WeatherCats>>, "ignore")

Req(plat, plng, dlat, dlng, d, t, w, car, h, dow) ==
    [pickup_lat |-> plat, pickup_lng |-> plng, drop_lat |-> dlat,
     drop_lng |-> dlng, distance_km |-> d, traffic_level |-> t,
     weather |-> w, car_type |-> car, hour |-> h, day_of_week |-> dow]

\* ------------------------------------------------------ specifications
\* Spec: one worker, every subset of models, strict and lenient encoders
SpecModels == {Mdl(7, 2000, 150), Mdl(7, 2501, 0), Mdl(9, 1800, 50)}
SpecScalers == {Sclr(<<"trip_distance", "hour">>)}
SpecEncoders == {EncStrict, EncIgnore}
SpecRequests ==
    {Req(0, 0, 0, 90, 52000, t, w, "SUV", 8, 2) :
        t \in {20, 75}, w \in {"Sunny", "Hail"}}

Next == System({1}, SpecRequests, SpecModels, SpecScalers, SpecEncoders)

Spec == Init /\ [][Next]_vars

\* SpecFeatures: every scaler column list, two encoders, models of width 5
FeatModels == {Mdl(5, 2000, 150)}
FeatScalers == {Sclr(l) : l \in ColumnLists}
FeatEncoders == {EncIgnore, EncWeather}
FeatRequests ==
    {Req(0, 0, 0, 90, 52000, 40, "Rainy", "SUV", 8, 2),
     Req(0, 0, 90, 0, 0, 75, "Sunny", "Economy", 23, 6)}

NextFeatures ==
    System({1}, FeatRequests, FeatModels, FeatScalers, FeatEncoders)

SpecFeatures == Init /\ [][NextFeatures]_vars

\* SpecSurge: traffic levels around both thresholds, every weather, and
\* models whose prices run from a cent to tens of dollars
SurgeModels ==
    {Mdl(4, 2, 0), Mdl(4, 6, 0), Mdl(4, 14, 0), Mdl(4, 4001, 1),
     Mdl(4, 0 - 14, 0)}
SurgeScalers == {Sclr(<<"traffic_level">>)}
SurgeEncoders == {EncWeather}
SurgeRequests ==
    {Req(0, 0, 0, 90, 52000, t, w, "SUV", 8, 2) :
        t \in {0, 35, 36, 60, 61, 100},
        w \in {"Sunny", "Cloudy", "Rainy", "Snowy", "Foggy"}}

NextSurge ==
    System({1}, SurgeRequests, SurgeModels, SurgeScalers, SurgeEncoders)

SpecSurge == Init /\ [][NextSurge]_vars

\* SpecDistance: one worker, supplied and computed distances
DistModels == {Mdl(5, 2000, 150)}
DistScalers == {Sclr(<<"trip_distance", "distance_km">>)}
DistEncoders == {EncWeather}
DistRequests ==
    {Req(0, 0, 0, lng, d, 0, "Sunny", "SUV", 8, 2) :
        lng \in {0, 90, 180}, d \in {0, 0 - KmUnit}}
    \cup {Req(90, 0, 0 - 90, 0, 0, 50, "Sunny", "SUV", 8, 2)}
    \cup {Req(0, 0, 0, 90, d, 0, "Sunny", "SUV", 8, 2) :
            d \in {500, 800, 1000, 12345, 12355}}
    \cup {Req(0, 0, 0, 90, d, 50, "Sunny", "SUV", 8, 2) : d \in {800, 12345}}

NextDistance ==
    System({1}, DistRequests, DistModels, DistScalers, DistEncoders)

SpecDistance == Init /\ [][NextDistance]_vars

\* SpecFair: all workers, distances below, at and above the 0.1 km floor
FairRequests ==
    {Req(0, 0, 0, 0, d, 0, "Sunny", "SUV", 8, 2) : d \in {500, 1000, 12345}}
    \cup {Req(0, 0, 0, 0, 12345, 50, "Sunny", "SUV", 8, 2)}

NextFair ==
    System(Slots, FairRequests, DistModels, DistScalers, DistEncoders)

SpecFair == Init /\ [][NextFair]_vars

\* SpecConc: all workers at once, requests that differ in every stage
ConcModels == {Mdl(7, 2000, 150), Mdl(9, 1800, 50)}
ConcScalers == {Sclr(<<"trip_distance", "hour">>)}
ConcEncoders == {EncStrict}
ConcRequests ==
    {Req(0, 0, 0, 90, 52000, 20, "Sunny", "SUV", 8, 2),
     Req(0, 0, 0, 180, 0, 75, "Rainy", "Economy", 23, 6),
     Req(0, 0, 90, 0, 800, 40, "Hail", "SUV", 9, 0)}

NextConc ==
    System(Slots, ConcRequests, ConcModels, ConcScalers, ConcEncoders)

SpecConc == Init /\ [][NextConc]_vars

\* --------------------------------------------- predict(), run on its own
\* line 161-242 for request q against the loaded artifacts
AloneNumDf(q) ==
    ScalerTransform(NumericRow(q, ResolveDistance(q), scaler), scaler)

AloneCatDf(q) ==
    CatFrame(EncoderTransform(CatRow(q, encoder), encoder),
             FeatureNamesOut(encoder))

AloneVector(q) ==
    CombineFrames(AloneNumDf(q), AloneCatDf(q), scaler.feature_names_in_,
                  FeatureNamesOut(encoder))

\* line 107-123
AlonePreds(q) ==
    [i \in 1..Len(SelectSeq(ModelNames, LAMBDA n : IsLoaded(ModelOf(n)))) |->
        ModelPredict(
            ModelOf(SelectSeq(ModelNames, LAMBDA n : IsLoaded(ModelOf(n)))[i]),
            AloneVector(q))]

\* the exception predict(q) ends with, "" when it returns
AloneError(q) ==
    IF EncoderRaises(CatRow(q, encoder), encoder) THEN ERR_TRANSFORM
    ELSE IF \E i \in 1..3 :
               /\ IsLoaded(ModelOf(ModelNames[i]))
               /\ ModelRaises(ModelOf(ModelNames[i]), AloneVector(q))
         THEN ERR_PREDICT
    ELSE IF LoadedNames = {} THEN ERR_NO_MODELS
    ELSE ""

\* the body predict(q) returns
AloneResponse(q) ==
    BuildResponse(
        q, ResolveDistance(q),
        BuildQuote(q, ResolveDistance(q), MeanMoney(AlonePreds(q))),
        [n \in LoadedNames |-> ModelPredict(ModelOf(n), AloneVector(q))])

\* ------------------------------------------------------------- claims
RECURSIVE SumOver(_, _)
SumOver(f, S) ==
    IF S = {} THEN 0
    ELSE LET x == CHOOSE y \in S : TRUE IN f[x] + SumOver(f, S \ {x})

LoadedP(n) == IsLoaded(ModelOf(n))

\* the names of the loaded models, in the order the code asks them
LoadedSeq == SelectSeq(ModelNames, LoadedP)

ZeroModels == proc = "serving" /\ LoadedNames = {}

\* C1 as stated: with zero models loaded every request that fails fails
\* with the no-models error, and none returns a body.
C1_Original ==
    ZeroModels =>
        \A s \in Slots :
            /\ response[s] = <<>>
            /\ pc[s] = "failed" => error[s] = ERR_NO_MODELS

\* C1 (amended): with zero models loaded no request ever gets a price or a
\* body; a request ends with the no-models error when its preprocessing
\* succeeds, and with the encoder's transform error when that raises first.
C1_NoModelsNoQuote ==
    ZeroModels =>
        \A s \in Slots :
            /\ response[s] = <<>>
            /\ pc[s] \notin {"price", "done"}
            /\ pc[s] = "failed" =>
                  error[s] = IF EncoderRaises(CatRow(req[s], encoder), encoder)
                             THEN ERR_TRANSFORM ELSE ERR_NO_MODELS

C1_Witness ==
    \E s \in Slots :
        ZeroModels /\ pc[s] = "failed" /\ error[s] = ERR_NO_MODELS

\* C2: whenever the ensemble returns, the component prices are those of
\* exactly the loaded models, each called once, in order, on the request's
\* final vector; the ensemble price is their unweighted mean; and no loaded
\* model's predict raised (a raise leaves the request without a result).
C2_EnsembleOverLoaded ==
    \A s \in Slots :
        pc[s] \in {"price", "done"} =>
            /\ LoadedNames # {}
            /\ DOMAIN component_prices[s] = LoadedNames
            /\ calls[s] = [i \in 1..Len(LoadedSeq) |->
                              [model |-> LoadedSeq[i], input |-> final_df[s]]]
            /\ \A n \in LoadedNames : ~ModelRaises(ModelOf(n), final_df[s])
            /\ Len(preds[s]) = Cardinality(LoadedNames)
            /\ MoneyTimes(app_base_price[s], 2 * Cardinality(LoadedNames))
                  = Money(SumOver(component_prices[s], LoadedNames), 0)

C2_Witness ==
    \E s \in Slots :
        /\ pc[s] = "done"
        /\ Cardinality(LoadedNames) = 2
        /\ \E a, b \in LoadedNames :
              component_prices[s][a] # component_prices[s][b]

C9_StateOK ==
    /\ proc = "crashed" =>
          /\ scaler = UNSET \/ encoder = UNSET
          /\ \A n \in Range(ModelNames) : ModelOf(n).kind \in {"None", "model"}
    /\ proc = "serving" =>
          /\ scaler.kind = "scaler" /\ encoder.kind = "encoder"
          /\ \A n \in Range(ModelNames) : ModelOf(n).kind \in {"None", "model"}
    /\ \A s \in Slots :
          /\ pc[s] # "idle" => proc = "serving"
          /\ pc[s] = "done" =>
                DOMAIN response[s][1].model_component_prices = LoadedNames
          /\ (pc[s] = "failed" /\ LoadedNames # {}) => error[s] # ERR_NO_MODELS

\* C9: a scaler or encoder load failure ends the process before it serves
\* (it stays crashed, no request is ever handled without both); a model load
\* failure never does, the model is None and requests are answered with
\* exactly the loaded models whenever there is one.
C9_StartupPolicy ==
    /\ []C9_StateOK
    /\ [][/\ proc = "crashed" => proc' = "crashed"
          /\ proc \in {"load_linear", "load_rf", "load_hist"} =>
                proc' # "crashed"]_vars

C9_Witness ==
    \E s \in Slots :
        /\ pc[s] = "done"
        /\ \E n \in Range(ModelNames) : ModelOf(n) = NONE
        /\ LoadedNames # {}

\* the policy table of the numeric columns, for column i of slot s
C3_Expected(s, i) ==
    LET col == scaler.feature_names_in_[i]
        d == distance_km[s]
    IN  CASE col = "trip_distance" -> [n |-> d, mul |-> 621371, pow |-> 1]
          [] col = "distance_km" -> [n |-> d, mul |-> Million, pow |-> 1]
          [] col \in {"distance_squared", "trip_distance_squared"} ->
                [n |-> d, mul |-> 621371, pow |-> 2]
          [] col = "hour" -> [n |-> req[s].hour, mul |-> Million, pow |-> 1]
          [] col = "day_of_week" ->
                [n |-> req[s].day_of_week, mul |-> Million, pow |-> 1]
          [] col \in {"traffic_multiplier", "traffic_level", "traffic_congestion"} ->
                [n |-> req[s].traffic_level, mul |-> Million, pow |-> 1]
          [] OTHER -> [n |-> scaler.mean_[i], mul |-> Million, pow |-> 1]

\* C3: once assembled, the numeric record has exactly the scaler's declared
\* columns as keys, each holding the value the policy table gives it; a
\* column under no rule holds the scaler's mean at that column's own index.
C3_NumericRecordComplete ==
    \A s \in Slots :
        pc[s] \notin {"idle", "distance", "numeric"} =>
            /\ DOMAIN numeric_row[s] = Range(scaler.feature_names_in_)
            /\ \A i \in 1..Len(scaler.feature_names_in_) :
                  numeric_row[s][scaler.feature_names_in_[i]] = C3_Expected(s, i)

C3_Witness ==
    \E s \in Slots :
        /\ pc[s] = "done"
        /\ Len(scaler.feature_names_in_) = 2
        /\ scaler.feature_names_in_[1] = "trip_distance"
        /\ scaler.feature_names_in_[2] = "passenger_count"
        /\ numeric_row[s]["passenger_count"].n = scaler.mean_[2]

\* where the one-hot block of categorical column j starts in the vector
RECURSIVE C4_Offset(_)
C4_Offset(j) ==
    IF j = 1 THEN Len(scaler.feature_names_in_)
    ELSE C4_Offset(j - 1) + Len(encoder.categories_[j - 1])

\* C4: the vector handed to the ensemble has the scaler's columns, then the
\* encoder's output columns, in their declared orders; every numeric cell is
\* the record's value for its column scaled with that column's statistics,
\* every one-hot cell tells whether the request's value for its column is
\* its category; every model called got exactly this vector.
C4_ColumnOrder ==
    \A s \in Slots :
        pc[s] \in {"linear", "rf", "hist", "mean", "price", "done"} =>
            /\ ColumnsOf(final_df[s])
                  = scaler.feature_names_in_ \o FeatureNamesOut(encoder)
            /\ \A i \in 1..Len(scaler.feature_names_in_) :
                  final_df[s][i] =
                      [col |-> scaler.feature_names_in_[i],
                       raw |-> numeric_row[s][scaler.feature_names_in_[i]],
                       mean |-> scaler.mean_[i], scale |-> scaler.scale_[i]]
            /\ \A j \in 1..Len(encoder.feature_names_in_) :
                  \A k \in 1..Len(encoder.categories_[j]) :
                      LET c == final_df[s][C4_Offset(j) + k]
                      IN  /\ c.col = encoder.feature_names_in_[j] \o "_"
                                        \o encoder.categories_[j][k]
                          /\ c.raw.n =
                                IF CatValue(encoder.feature_names_in_[j], req[s])
                                      = encoder.categories_[j][k]
                                THEN 1 ELSE 0
            /\ \A i \in 1..Len(calls[s]) : calls[s][i].input = final_df[s]

C4_Witness ==
    \E s \in Slots :
        /\ pc[s] = "done"
        /\ Len(calls[s]) >= 2
        /\ Len(scaler.feature_names_in_) = 2
        /\ Len(encoder.feature_names_in_) = 1
        /\ final_df[s][4].col = "weather_condition_Rainy"
        /\ final_df[s][4].raw.n = 1

\* C5: the surge multiplier is 1.30 for traffic above 60 or Rainy, Snowy or
\* Foggy weather, else 1.15 for traffic above 35, else 1.00 (60 and 35
\* themselves in the lower band); final_fare is the base price times it and
\* surge_fee is final_fare less the base price.
C5_SurgeBands ==
    \A s \in Slots :
        pc[s] = "done" =>
            LET t == req[s].traffic_level
                bad == req[s].weather \in {"Rainy", "Snowy", "Foggy"}
                m == quote[s].surge_multiplier
            IN  /\ m \in {100, 115, 130}
                /\ m = 130 <=> (t > 60 \/ bad)
                /\ m = 115 <=> (~(t > 60 \/ bad) /\ t > 35)
                /\ m = 100 <=> (~bad /\ t <= 35)
                /\ response[s][1].surge_multiplier = m
                /\ quote[s].model_base_price = app_base_price[s]
                /\ MoneyTimes(quote[s].final_fare, 100)
                      = MoneyTimes(app_base_price[s], m)
                /\ MoneySub(quote[s].final_fare, quote[s].surge_fee)
                      = app_base_price[s]

C5_Witness ==
    \E s \in Slots :
        /\ pc[s] = "done"
        /\ req[s].traffic_level = 60 /\ req[s].weather = "Sunny"
        /\ quote[s].surge_multiplier = 115
        /\ quote[s].surge_fee # Money(0, 0)

\* the fair prices of two finished requests
C6_Pairs == {p \in Slots \X Slots : pc[p[1]] = "done" /\ pc[p[2]] = "done"}

\* C6 as stated: at equal traffic a longer distance always gives a strictly
\* higher fair price.
C6_Original ==
    \A p \in C6_Pairs :
        (/\ req[p[1]].traffic_level = req[p[2]].traffic_level
         /\ distance_km[p[1]] < distance_km[p[2]])
        => MoneyLess(quote[p[1]].fair_price, quote[p[2]].fair_price)

\* C6 (amended): at equal traffic the fair price is non-decreasing in the
\* distance, and strictly increasing once the larger distance is above the
\* 0.1 km floor; at equal distance it is non-decreasing in the traffic level.
C6_FairPriceMonotone ==
    \A p \in C6_Pairs :
        LET d1 == distance_km[p[1]]
            d2 == distance_km[p[2]]
            t1 == req[p[1]].traffic_level
            t2 == req[p[2]].traffic_level
            f1 == quote[p[1]].fair_price
            f2 == quote[p[2]].fair_price
        IN  /\ (t1 = t2 /\ d1 < d2) => ~MoneyLess(f2, f1)
            /\ (t1 = t2 /\ d1 < d2 /\ 10 * d2 > KmUnit) => MoneyLess(f1, f2)
            /\ (d1 = d2 /\ t1 <= t2) => ~MoneyLess(f2, f1)

C6_Witness ==
    \E p \in C6_Pairs :
        /\ req[p[1]].traffic_level = req[p[2]].traffic_level
        /\ distance_km[p[1]] = 500 /\ distance_km[p[2]] = 12345
        /\ MoneyLess(quote[p[1]].fair_price, quote[p[2]].fair_price)

\* C7: the resolved distance is the request's distance_km when that is
\* positive and the haversine distance of the coordinates, which is not
\* negative, otherwise; the numeric record, the fair price and the distance
\* in the response (rounded to three decimals) are all taken from it.
C7_ResolvedDistance ==
    \A s \in Slots :
        pc[s] \notin {"idle", "distance"} =>
            LET q == req[s]
                d == distance_km[s]
            IN  /\ q.distance_km > 0 => d = q.distance_km
                /\ q.distance_km <= 0 =>
                      /\ d = haversine(q.pickup_lat, q.pickup_lng,
                                       q.drop_lat, q.drop_lng)
                      /\ d >= 0
                /\ pc[s] = "done" =>
                      /\ numeric_row[s]["distance_km"].n = d
                      /\ numeric_row[s]["trip_distance"]
                            = [n |-> d, mul |-> 621371, pow |-> 1]
                      /\ quote[s].fair_price
                            = compute_fair_taxi_price(d, q.traffic_level)
                      /\ 10 * response[s][1].inputs.distance_km - d \in -5..5

C7_Witness ==
    \E s \in Slots :
        /\ pc[s] = "done"
        /\ req[s].distance_km <= 0
        /\ req[s].pickup_lng # req[s].drop_lng
        /\ distance_km[s] > 0
        /\ response[s][1].inputs.distance_km > 0

\* the model base price is at least 7 cents in absolute value
C8_AtLeast7Cents(m) == m.c >= 7 \/ m.c < 0 - 7 \/ m = Money(0 - 7, 0)

\* C8 as stated: under a surge of 1.15 or 1.30 the rounded final fare always
\* differs from the rounded base price.
C8_Original ==
    \A s \in Slots :
        (pc[s] = "done" /\ quote[s].surge_multiplier # 100) =>
            response[s][1].final_ai_fare # response[s][1].model_base_price

\* C8 (amended): the rounded final fare equals the rounded base price when
\* the surge multiplier is 1.00, and differs from it under 1.15 or 1.30
\* whenever the base price is at least 0.07 in absolute value.
C8_RoundedFareVsBase ==
    \A s \in Slots :
        pc[s] = "done" =>
            /\ response[s][1].final_ai_fare = Round2(quote[s].final_fare)
            /\ response[s][1].model_base_price = Round2(app_base_price[s])
            /\ quote[s].surge_multiplier = 100 =>
                  response[s][1].final_ai_fare = response[s][1].model_base_price
            /\ (quote[s].surge_multiplier # 100
                  /\ C8_AtLeast7Cents(app_base_price[s])) =>
                  response[s][1].final_ai_fare # response[s][1].model_base_price

C8_Witness ==
    \E s \in Slots :
        /\ pc[s] = "done"
        /\ quote[s].surge_multiplier = 115
        /\ app_base_price[s] = Money(7, 0)
        /\ response[s][1].final_ai_fare = 8

C10_Isolated(s) ==
    /\ pc[s] \notin {"idle", "distance"} =>
          distance_km[s] = ResolveDistance(req[s])
    /\ pc[s] \notin {"idle", "distance", "numeric"} =>
          num_df[s] = AloneNumDf(req[s])
    /\ pc[s] \in {"combine", "linear", "rf", "hist", "mean", "price", "done"} =>
          cat_df[s] = AloneCatDf(req[s])
    /\ pc[s] \in {"linear", "rf", "hist", "mean", "price", "done"} =>
          final_df[s] = AloneVector(req[s])
    /\ pc[s] \in {"price", "done"} => preds[s] = AlonePreds(req[s])
    /\ pc[s] = "done" =>
          /\ AloneError(req[s]) = ""
          /\ response[s] = <<AloneResponse(req[s])>>
    /\ pc[s] = "failed" =>
          /\ error[s] = AloneError(req[s])
          /\ error[s] # ""
          /\ response[s] = <<>>

\* C10: once the process serves, no step changes a loaded artifact, and under
\* every interleaving of the workers' stages each request's frames, result
\* or exception are those predict() gives for that request alone against the
\* same artifacts.
C10_RequestsIndependent ==
    /\ [](\A s \in Slots : C10_Isolated(s))
    /\ [][proc = "serving" => UNCHANGED artifacts]_vars

C10_Witness ==
    \E s, t \in Slots :
        /\ pc[s] = "done"
        /\ pc[t] \in {"combine", "linear", "rf", "hist", "mean"}
        /\ req[s] # req[t]
        /\ num_df[s] # num_df[t]

====
